---------------------------- MODULE Spec2Model ----------------------------
(***************************************************************************)
(* Four programs of the repository, each with its own variables and its    *)
(* own specifications: the trailing stop risk model, the two custom moving *)
(* averages of CustomWarmUpPeriodIndicatorAlgorithm, the Greeks regression *)
(* algorithm for European options and the futures template algorithm.      *)
(*                                                                         *)
(* TrailingStopRiskManagementModel                                         *)
(* (Algorithm.Framework/Risk/TrailingStopRiskManagementModel.py).          *)
(*                                                                         *)
(* The model keeps, per symbol, the highest High seen while the security   *)
(* is invested (self.trailingHighs) and, at every time step, returns a     *)
(* PortfolioTarget(symbol, 0) for each invested security whose Low fell    *)
(* under maxHigh * (1 - maximumDrawdownPercent).                           *)
(*                                                                         *)
(* Prices are positive integers.  The drawdown is kept in hundredths, so   *)
(* 0.05 is 5 and the comparison  Low < maxHigh * (1.0 - pct)  is made as  *)
(* Low * 100 < maxHigh * (100 - pct), which is the same comparison in      *)
(* exact arithmetic.                                                       *)
(***************************************************************************)
EXTENDS Integers, Sequences, FiniteSets

\* ------------------------------------------------------------------------
\* Bounds of the model
\* ------------------------------------------------------------------------

\* Prices (High, Low) range over 1..MaxPrice.
MaxPrice == 3

Prices == 1..MaxPrice

\* The securities the engine knows by symbol, in the order of their keys.
SymbolOrder == <<"X", "Y">>

Symbols == {SymbolOrder[i] : i \in DOMAIN SymbolOrder}

\* The values handed to the constructor, in hundredths (0.5 is 50).
ConfiguredPercents == {-50, 25}

\* A bar of a security: <<High, Low>> with Low <= High.
Bars == {b \in Prices \X Prices : b[2] <= b[1]}

\* The loop of ManageRisk leaves at its first continue for a security that
\* is not invested and never reads its bar: one bar stands for all of them,
\* the one with the widest range.
FlatBars == {<<MaxPrice, 1>>}

\* The bars a security can show at a time step.
BarsOf(isInvested) == IF isInvested THEN Bars ELSE FlatBars

\* The default of the constructor argument, 0.05, in hundredths.
DefaultDrawdownPercent == 5

\* The indicators hold at most MaxPeriod values, are updated at most
\* MaxUpdates times, and their inputs range over 0..MaxInput.
MaxPeriod == 3

MaxUpdates == 5

MaxInput == 2

InputValues == 0..MaxInput

\* CSMAWithoutWarmUp('custom', 60), CSMAWithWarmUp('customWarmUp', 60)
Period == 60

\* RollingWindow[IndicatorDataPoint](5)
WindowSize == 5

\* A chain of options or of futures holds at most MaxContracts contracts.
MaxContracts == 2

\* timedelta(90): contracts expiring later than that many days from now
HorizonDays == 90

\* SetFilter(timedelta(0), timedelta(182)): the chain holds the contracts
\* expiring within that many days
FilterDays == 182

VARIABLES
    configured,              \* the constructor argument maximumDrawdownPercent
    maximumDrawdownPercent,  \* self.maximumDrawdownPercent
    trailingHighs,           \* self.trailingHighs: dict symbol -> high
    riskAdjustedTargets,     \* the list the last ManageRisk call returned
    Securities,              \* algorithm.Securities at the last call, in iteration order
    invested,                \* security.Invested of every symbol at the last call
    prevHighs,               \* self.trailingHighs as the last call found it
    \* What an observer of the calls has noted, per symbol:
    lastReport,              \* what the last call that saw the symbol saw: "never", "invested", "flat"
    observedSince,           \* a call saw it since it became invested
    sinceInvestedMax,        \* the highest High seen since it became invested, 0 for none
    reportedMax,             \* the highest High seen since a call last saw it not invested, 0 for none
    evictedHigh,             \* the record it lost when it was last seen not invested, 0 for none
    pendingBefore,           \* before the last call: a target was returned for it and it was seen invested ever since
    geRun,                   \* every call since it was last seen not invested had High >= the record found
    gtRun,                   \* every call since it was last seen not invested had High > the record found
    heldWhileAbsent,         \* the record it had when it left the collection, kept until a call has seen it again, 0 for none
    raised,                  \* the last ManageRisk call raised instead of returning
    \* A second model, built from the opposite argument and run side by side:
    mirrorPercent,
    mirrorHighs,
    mirrorTargets,
    \* CustomWarmUpPeriodIndicatorAlgorithm:
    custom,                  \* self.custom: Name, Value, queue, maxlen
    customWarmUp,            \* self.customWarmUp: Name, Value, queue, maxlen, WarmUpPeriod
    customIsReady,           \* what the last Update of self.custom returned
    customWarmUpIsReady,     \* what the last Update of self.customWarmUp returned
    customWindow,            \* self.customWindow, newest first
    customWarmUpWindow,      \* self.customWarmUpWindow, newest first
    spyInvested,             \* self.Portfolio.Invested
    indicatorRun,            \* "running", "quit" after Quit, "ended" or "raised" after OnEndOfAlgorithm
    inputs,                  \* every input the indicators were updated with, oldest first
    readyAt,                 \* the number of the first Update of self.customWarmUp that returned True, 0 for none
    \* OptionPriceModelForSupportedEuropeanOptionRegressionAlgorithm:
    showGreeks,              \* self._showGreeks
    triedGreeksCalculation,  \* self._triedGreeksCalculation
    isWarmingUp,             \* self.IsWarmingUp
    optionChains,            \* slice.OptionChains of the last OnData, in iteration order
    greeksRun,               \* "running", "error" after OnData raised, "ended" or "raised" after OnEndOfAlgorithm
    lastHandler,             \* the handler called last, "EndOfWarmUp" when the warm-up ended since
    showGreeksBefore,        \* self._showGreeks as the handler called last found it
    reachedGreeks,           \* an OnData outside warm-up carried calls of the index option while _showGreeks was true
    evaluationsToday,        \* the OnData calls that evaluated Greeks since the last OnEndOfDay
    noCallsToday,            \* an OnData since the last OnEndOfDay found the index option chain without calls
    \* BasicTemplateFuturesAlgorithm:
    portfolioInvested,       \* self.Portfolio.Invested
    investedAtCall,          \* self.Portfolio.Invested as the last OnData found it
    futureChains,            \* slice.FutureChains of the last OnData, in iteration order
    marketOrders,            \* the MarketOrder calls of the last OnData, in order
    liquidated,              \* the last OnData called Liquidate
    futuresCalled            \* OnData has been called

coreVars == <<configured, maximumDrawdownPercent, trailingHighs,
              riskAdjustedTargets, Securities, invested, prevHighs, raised>>

feedVars == <<lastReport, observedSince, sinceInvestedMax, reportedMax>>

mirrorVars == <<mirrorPercent, mirrorHighs, mirrorTargets>>

indicatorVars == <<custom, customWarmUp, customIsReady, customWarmUpIsReady, customWindow,
                   customWarmUpWindow, spyInvested, indicatorRun, inputs, readyAt>>

riskVars == <<coreVars, feedVars, evictedHigh, pendingBefore, geRun, gtRun, heldWhileAbsent, mirrorVars>>

greeksVars == <<showGreeks, triedGreeksCalculation, isWarmingUp, optionChains, greeksRun,
                lastHandler, showGreeksBefore, reachedGreeks, evaluationsToday, noCallsToday>>

futuresVars == <<portfolioInvested, investedAtCall, futureChains, marketOrders, liquidated, futuresCalled>>

otherVars == <<indicatorVars, greeksVars, futuresVars>>

\* ------------------------------------------------------------------------
\* The dictionary self.trailingHighs: a function whose domain is its keys
\* ------------------------------------------------------------------------

\* dict()
EmptyDict == [s \in {} |-> 0]

\* Mutant of Pop: the record of a security that is not invested is kept.
PopKeeps(highs, symbol) == highs

\* self.trailingHighs.pop(symbol, None)
Pop(highs, symbol) == [s \in (DOMAIN highs) \ {symbol} |-> highs[s]]

\* Mutant of SetItem: a key the dictionary holds keeps its value.
SetItemOnce(highs, symbol, high) == [s \in (DOMAIN highs) \cup {symbol} |-> IF s \in DOMAIN highs THEN highs[s] ELSE high]

\* self.trailingHighs[symbol] = high
SetItem(highs, symbol, high) == [s \in (DOMAIN highs) \cup {symbol} |-> IF s = symbol THEN high ELSE highs[s]]

\* Mutant of Abs: the sign of the argument is kept.
AbsKeepsSign(x) == x

\* abs(maximumDrawdownPercent)
Abs(x) == IF x < 0 THEN -x ELSE x

\* PortfolioTarget(symbol, 0)
PortfolioTarget(symbol, quantity) == [Symbol |-> symbol, Quantity |-> quantity]

\* maxHigh == None or maxHigh < high, with maxHigh = self.trailingHighs.get(symbol)
IsNewHigh(highs, symbol, high) == symbol \notin DOMAIN highs \/ highs[symbol] < high

\* Mutant of BelowDrawdown: <= for <.
BelowOrAtDrawdown(low, maxHigh, pct) == low * 100 <= maxHigh * (100 - pct)

\* security.Low < maxHigh * (1.0 - self.maximumDrawdownPercent)
BelowDrawdown(low, maxHigh, pct) == low * 100 < maxHigh * (100 - pct)

\* Mutant of ProcessSecurity: the continue after the update of the record
\* is missing, so the Low is compared with the record just written.
ProcessSecurityNoContinue(st, security, pct) ==
    LET symbol == security.Key
        high   == security.High
        upd    == IF IsNewHigh(st.highs, symbol, high) THEN SetItem(st.highs, symbol, high) ELSE st.highs
    IN  IF ~security.Invested
        THEN [st EXCEPT !.highs = Pop(st.highs, symbol)]
        ELSE IF BelowDrawdown(security.Low, upd[symbol], pct)
        THEN [highs |-> upd, targets |-> Append(st.targets, PortfolioTarget(symbol, 0))]
        ELSE [st EXCEPT !.highs = upd]

\* Mutant of ProcessSecurity: the record is dropped when the security is
\* liquidated.
ProcessSecurityResets(st, security, pct) ==
    LET symbol == security.Key
        high   == security.High
    IN  IF ~security.Invested
        THEN [st EXCEPT !.highs = Pop(st.highs, symbol)]
        ELSE IF IsNewHigh(st.highs, symbol, high)
        THEN [st EXCEPT !.highs = SetItem(st.highs, symbol, high)]
        ELSE IF BelowDrawdown(security.Low, st.highs[symbol], pct)
        THEN [highs |-> Pop(st.highs, symbol), targets |-> Append(st.targets, PortfolioTarget(symbol, 0))]
        ELSE st

\* The body of the loop of ManageRisk for one security: st holds the
\* dictionary and the list built so far.
ProcessSecurity(st, security, pct) ==
    LET symbol == security.Key
        high   == security.High
    IN  IF ~security.Invested
        THEN [st EXCEPT !.highs = Pop(st.highs, symbol)]
        ELSE IF IsNewHigh(st.highs, symbol, high)
        THEN [st EXCEPT !.highs = SetItem(st.highs, symbol, high)]
        ELSE IF BelowDrawdown(security.Low, st.highs[symbol], pct)
        THEN [st EXCEPT !.targets = Append(st.targets, PortfolioTarget(symbol, 0))]
        ELSE st

\* Mutant of ManageRiskFrom: break for continue at a security that is not
\* invested, so the securities after it are not visited.
RECURSIVE ManageRiskFromBreaks(_, _, _, _)
ManageRiskFromBreaks(securities, i, st, pct) ==
    IF i > Len(securities)
    THEN st
    ELSE IF ~securities[i].Invested
    THEN [st EXCEPT !.highs = Pop(st.highs, securities[i].Key)]
    ELSE ManageRiskFromBreaks(securities, i + 1, ProcessSecurity(st, securities[i], pct), pct)

\* for kvp in algorithm.Securities: ... from the i-th security on
RECURSIVE ManageRiskFrom(_, _, _, _)
ManageRiskFrom(securities, i, st, pct) ==
    IF i > Len(securities)
    THEN st
    ELSE ManageRiskFrom(securities, i + 1, ProcessSecurity(st, securities[i], pct), pct)

\* Mutant of ManageRisk: the dictionary is rebuilt from the securities of
\* the call, so the record of a symbol the collection does not hold is lost.
ManageRiskForgets(securities, highs, pct) == ManageRiskFrom(securities, 1, [highs |-> [s \in (DOMAIN highs) \cap {securities[i].Key : i \in DOMAIN securities} |-> highs[s]], targets |-> <<>>], pct)

\* ManageRisk(algorithm, targets): the dictionary after the call and the
\* list it returns
ManageRisk(securities, highs, pct) == ManageRiskFrom(securities, 1, [highs |-> highs, targets |-> <<>>], pct)

\* The High of a security that has none: reading security.High raises.
MissingHigh == 0

\* self.trailingHighs as a call leaves it when  high = security.High  raises
\* at the k-th security: the loop has run for the securities before it, on
\* the dictionary itself, and nothing undoes what it did.
ManageRiskRaisingAt(securities, k, highs, pct) == ManageRisk(SubSeq(securities, 1, k - 1), highs, pct).highs

\* ------------------------------------------------------------------------
\* algorithm.Securities: the securities of one time step
\* ------------------------------------------------------------------------

\* The orders in which the securities of S can be iterated.
Orderings(S) == {q \in [1..Cardinality(S) -> S] : \A i, j \in 1..Cardinality(S) : q[i] = q[j] => i = j}

\* The collections algorithm.Securities can be when inv gives Invested of
\* every symbol: any subset of the symbols, in any order, with any bars.
SecuritiesOf(inv) == UNION {{[i \in 1..Len(q) |-> [Key |-> q[i], Invested |-> inv[q[i]], High |-> bars[q[i]][1], Low |-> bars[q[i]][2]]] : q \in Orderings(S), bars \in {b \in [S -> Bars \cup FlatBars] : \A s \in S : b[s] \in BarsOf(inv[s])}} : S \in SUBSET Symbols}

\* The securities of a collection by symbol (the keys are distinct).
BySymbol(securities) == [s \in {securities[i].Key : i \in DOMAIN securities} |-> securities[CHOOSE i \in DOMAIN securities : securities[i].Key = s]]

\* What a call sees of every symbol: "absent" when the collection does not
\* hold it, else "invested" or "flat" after security.Invested.
SeenAs(securities) == [s \in Symbols |-> IF \A i \in DOMAIN securities : securities[i].Key # s THEN "absent" ELSE IF BySymbol(securities)[s].Invested THEN "invested" ELSE "flat"]

\* The High a call sees of every symbol, 0 for a symbol it does not see.
HighOf(securities) == [s \in Symbols |-> IF \A i \in DOMAIN securities : securities[i].Key # s THEN 0 ELSE BySymbol(securities)[s].High]

\* The time steps: Invested of every symbol, the collection the call
\* iterates, and what the call sees of every symbol.  Tabulated once.
TimeSteps == UNION {{[inv |-> inv, securities |-> q, seen |-> SeenAs(q), high |-> HighOf(q)] : q \in SecuritiesOf(inv)} : inv \in [Symbols -> BOOLEAN]}

\* The position of symbol s in SymbolOrder.
Rank(s) == CHOOSE i \in DOMAIN SymbolOrder : SymbolOrder[i] = s

\* The time steps whose collection is iterated in the order of the keys.
TimeStepsInOrder == {step \in TimeSteps : \A i, j \in DOMAIN step.securities : i < j => Rank(step.securities[i].Key) < Rank(step.securities[j].Key)}

\* ManageRisk reads security.Invested of the securities of the collection
\* only: the time steps in key order that say nothing of the others (a
\* symbol the collection does not hold is taken as not invested).
TimeStepsAsSeen == {step \in TimeStepsInOrder : \A s \in Symbols : step.seen[s] = "absent" => ~step.inv[s]}

\* ------------------------------------------------------------------------
\* CustomWarmUpPeriodIndicatorAlgorithm: two simple moving averages
\* (Algorithm.Python/CustomWarmUpPeriodIndicatorAlgorithm.py)
\*
\* Value is the quotient np.sum(self.queue) / count.  It is kept as the pair
\* of its numerator and denominator, and two Values are compared by cross
\* multiplication, so that no Value is rounded.
\* ------------------------------------------------------------------------

\* self.Value = 0
Zero == [num |-> 0, den |-> 1]

RECURSIVE Sum(_)
\* np.sum(self.queue)
Sum(queue) == IF queue = <<>> THEN 0 ELSE Head(queue) + Sum(Tail(queue))

\* Mutant of AppendLeft: a queue that is not bounded.
AppendLeftUnbounded(queue, maxlen, value) == <<value>> \o queue

\* self.queue.appendleft(value) on deque(maxlen = maxlen): a full queue
\* drops its rightmost value.
AppendLeft(queue, maxlen, value) ==
    LET longer == <<value>> \o queue
    IN  IF Len(longer) > maxlen THEN SubSeq(longer, 1, maxlen) ELSE longer

\* CSMAWithWarmUp.__init__(name, period)
CSMAWithWarmUp(name, period) == [Name |-> name, Value |-> Zero, queue |-> <<>>, maxlen |-> period, WarmUpPeriod |-> period]

\* CSMAWithoutWarmUp.__init__(name, period)
CSMAWithoutWarmUp(name, period) == [Name |-> name, Value |-> Zero, queue |-> <<>>, maxlen |-> period]

\* CSMAWithWarmUp.Update(input): the indicator after the call and what the
\* call returns
CSMAWithWarmUpUpdate(self, value) ==
    LET queue == AppendLeft(self.queue, self.maxlen, value)
        count == Len(queue)
    IN  [self |-> [self EXCEPT !.queue = queue, !.Value = [num |-> Sum(queue), den |-> count]],
         returns |-> count = self.maxlen]

\* Mutant of CSMAWithoutWarmUpUpdate: the sum is divided by the period.
CSMAWithoutWarmUpUpdateByPeriod(self, value) ==
    LET queue == AppendLeft(self.queue, self.maxlen, value)
        count == Len(queue)
    IN  [self |-> [self EXCEPT !.queue = queue, !.Value = [num |-> Sum(queue), den |-> self.maxlen]],
         returns |-> count = self.maxlen]

\* CSMAWithoutWarmUp.Update(input)
CSMAWithoutWarmUpUpdate(self, value) ==
    LET queue == AppendLeft(self.queue, self.maxlen, value)
        count == Len(queue)
    IN  [self |-> [self EXCEPT !.queue = queue, !.Value = [num |-> Sum(queue), den |-> count]],
         returns |-> count = self.maxlen]

\* RollingWindow.Add: the newest item first, at most WindowSize items.
WindowAdd(window, item) ==
    LET longer == <<item>> \o window
    IN  IF Len(longer) > WindowSize THEN SubSeq(longer, 1, WindowSize) ELSE longer

\* abs(a - b) > 1e-10 for two quotients.  Two different quotients with
\* denominators up to MaxPeriod + 1 are at least 1 / (MaxPeriod + 1)^2 apart,
\* which is far over 1e-10: they differ by more than that exactly when they
\* are not equal.
DiffOverTolerance(a, b) == a.num * b.den # b.num * a.den

\* ------------------------------------------------------------------------
\* OptionPriceModelForSupportedEuropeanOptionRegressionAlgorithm
\* (Algorithm.Python/OptionPriceModelForSupportedEuropeanOptionRegressionAlgorithm.py)
\* ------------------------------------------------------------------------

\* self._indexOptionSymbol, and the symbol of another option chain
IndexOptionSymbol == "SPX option"

OtherOptionSymbol == "other option"

\* A contract of a chain: its Right, and whether reading contract.Greeks
\* gives the Greeks or raises ArgumentException.
Contracts == [Right : {"Call", "Put"}, GreeksOk : BOOLEAN] \ {[Right |-> "Put", GreeksOk |-> FALSE]}

\* The sequences over S of length up to n.
SeqsUpTo(S, n) == UNION {[1..k -> S] : k \in 0..n}

\* The chain of the index option holds any contracts; OnData leaves the
\* loop body at its first continue for any other chain and never reads its
\* contracts: one chain stands for all of them.
ChainsOf(symbol) == IF symbol = IndexOptionSymbol THEN {[Key |-> symbol, Value |-> contracts] : contracts \in SeqsUpTo(Contracts, MaxContracts)} ELSE {[Key |-> symbol, Value |-> <<[Right |-> "Call", GreeksOk |-> TRUE]>>]}

\* slice.OptionChains: chains of distinct symbols, in any order.
OptionChains == UNION {{[i \in 1..Len(q) |-> chain[q[i]]] : q \in Orderings(S), chain \in {c \in [S -> ChainsOf(IndexOptionSymbol) \cup ChainsOf(OtherOptionSymbol)] : \A s \in S : c[s] \in ChainsOf(s)}} : S \in SUBSET {IndexOptionSymbol, OtherOptionSymbol}}

\* [contract for contract in chain if contract.Right == OptionRight.Call]
CallContracts(chain) == SelectSeq(chain, LAMBDA contract : contract.Right = "Call")

\* Mutant of StartCalculation: _showGreeks is left set.
StartCalculationKeepsShow(st) == [st EXCEPT !.tried = TRUE, !.evaluated = TRUE]

\* Mutant of StartCalculation: _triedGreeksCalculation is not set.
StartCalculationNoTried(st) == [st EXCEPT !.show = FALSE, !.evaluated = TRUE]

\* self._showGreeks = False; self._triedGreeksCalculation = True, and the
\* loop over the contracts is entered.
StartCalculation(st) == [st EXCEPT !.show = FALSE, !.tried = TRUE, !.evaluated = TRUE]

\* for kvp in slice.OptionChains: ... from the i-th chain on.  st holds
\* _showGreeks, _triedGreeksCalculation, whether the Greeks were evaluated
\* and whether the call raised.
RECURSIVE GreeksOnDataFrom(_, _, _)
GreeksOnDataFrom(chains, i, st) ==
    IF i > Len(chains)
    THEN st
    ELSE IF chains[i].Key # IndexOptionSymbol
    THEN GreeksOnDataFrom(chains, i + 1, st)
    ELSE LET contracts == CallContracts(chains[i].Value)
         IN  IF Len(contracts) = 0
             THEN st
             ELSE IF st.show
             THEN LET started == StartCalculation(st)
                  IN  IF \E j \in DOMAIN contracts : ~contracts[j].GreeksOk
                      THEN [started EXCEPT !.raised = TRUE]
                      ELSE GreeksOnDataFrom(chains, i + 1, started)
             ELSE GreeksOnDataFrom(chains, i + 1, st)

\* OnData(slice)
GreeksOnData(show, tried, warmingUp, chains) ==
    LET st == [show |-> show, tried |-> tried, evaluated |-> FALSE, raised |-> FALSE]
    IN  IF warmingUp THEN st ELSE GreeksOnDataFrom(chains, 1, st)

\* The chains hold the chain of the index option, with a call in it.
HasCalls(chains) == \E i \in DOMAIN chains : chains[i].Key = IndexOptionSymbol /\ \E j \in DOMAIN chains[i].Value : chains[i].Value[j].Right = "Call"

\* The chains hold the chain of the index option, without a call in it.
HasNoCalls(chains) == \E i \in DOMAIN chains : chains[i].Key = IndexOptionSymbol /\ \A j \in DOMAIN chains[i].Value : chains[i].Value[j].Right # "Call"

\* ------------------------------------------------------------------------
\* BasicTemplateFuturesAlgorithm
\* (Algorithm.Python/BasicTemplateFuturesAlgorithmDaily.py)
\*
\* The file is Python 2 (it does not compile as Python 3): filter returns a
\* list.  Expiry is counted in days from self.Time of the call.
\* ------------------------------------------------------------------------

\* Futures.Indices.SP500EMini and Futures.Metals.Gold
FutureSymbols == {"ES", "GC"}

\* The days to expiry of the contracts of a chain, within the filter.
ExpiryDays == {30, HorizonDays, HorizonDays + 1, FilterDays}

\* The contract of a future that expires in the given number of days.
FuturesContract(future, days) == [Symbol |-> <<future, days>>, Expiry |-> days]

\* The chains of a future: up to MaxContracts contracts of distinct expiry,
\* in any order.
FutureChainsOf(future) == {[Key |-> future, Value |-> [i \in DOMAIN days |-> FuturesContract(future, days[i])]] : days \in {d \in SeqsUpTo(ExpiryDays, MaxContracts) : \A i, j \in DOMAIN d : d[i] = d[j] => i = j}}

\* slice.FutureChains: chains of distinct futures, in any order.
FutureChains == UNION {{[i \in 1..Len(q) |-> chain[q[i]]] : q \in Orderings(S), chain \in {c \in [S -> UNION {FutureChainsOf(f) : f \in FutureSymbols}] : \A f \in S : c[f] \in FutureChainsOf(f)}} : S \in SUBSET FutureSymbols}

\* filter(lambda x: x.Expiry > self.Time + timedelta(90), chain.Value)
ExpiringLater(contracts) == SelectSeq(contracts, LAMBDA x : x.Expiry > HorizonDays)

\* One step of a stable sort by Expiry, latest first: x goes behind the
\* contracts that expire no earlier than it.
RECURSIVE InsertByExpiryReverse(_, _)
InsertByExpiryReverse(sorted, x) ==
    IF sorted = <<>>
    THEN <<x>>
    ELSE IF Head(sorted).Expiry >= x.Expiry
    THEN <<Head(sorted)>> \o InsertByExpiryReverse(Tail(sorted), x)
    ELSE <<x>> \o sorted

\* sorted(contracts, key = lambda x: x.Expiry, reverse=True)
RECURSIVE SortedByExpiryReverse(_)
SortedByExpiryReverse(contracts) ==
    IF contracts = <<>>
    THEN <<>>
    ELSE InsertByExpiryReverse(SortedByExpiryReverse(SubSeq(contracts, 1, Len(contracts) - 1)), contracts[Len(contracts)])

\* for chain in slice.FutureChains: ... from the i-th chain on; orders are
\* the MarketOrder calls made so far.
RECURSIVE FuturesOrdersFrom(_, _, _)
FuturesOrdersFrom(chains, i, orders) ==
    IF i > Len(chains)
    THEN orders
    ELSE LET contracts == ExpiringLater(chains[i].Value)
         IN  IF Len(contracts) = 0
             THEN FuturesOrdersFrom(chains, i + 1, orders)
             ELSE LET front == SortedByExpiryReverse(contracts)[1]
                  IN  FuturesOrdersFrom(chains, i + 1, Append(orders, [Symbol |-> front.Symbol, Quantity |-> 1]))

\* OnData(slice): the orders it places and whether it liquidates
FuturesOnData(isInvested, chains) ==
    IF ~isInvested
    THEN [orders |-> FuturesOrdersFrom(chains, 1, <<>>), liquidated |-> FALSE]
    ELSE [orders |-> <<>>, liquidated |-> TRUE]

\* ------------------------------------------------------------------------
\* The state machine
\* ------------------------------------------------------------------------

\* __init__(maximumDrawdownPercent); the observer has seen nothing, and the
\* second model is built from the opposite argument.
RiskInit(percent) ==
    /\ configured = percent
    /\ maximumDrawdownPercent = Abs(configured)
    /\ trailingHighs = EmptyDict
    /\ riskAdjustedTargets = <<>>
    /\ Securities = <<>>
    /\ invested = [s \in Symbols |-> FALSE]
    /\ prevHighs = EmptyDict
    /\ lastReport = [s \in Symbols |-> "never"]
    /\ observedSince = [s \in Symbols |-> FALSE]
    /\ sinceInvestedMax = [s \in Symbols |-> 0]
    /\ reportedMax = [s \in Symbols |-> 0]
    /\ evictedHigh = [s \in Symbols |-> 0]
    /\ pendingBefore = [s \in Symbols |-> FALSE]
    /\ geRun = [s \in Symbols |-> TRUE]
    /\ gtRun = [s \in Symbols |-> TRUE]
    /\ heldWhileAbsent = [s \in Symbols |-> 0]
    /\ raised = FALSE
    /\ mirrorPercent = Abs(-configured)
    /\ mirrorHighs = EmptyDict
    /\ mirrorTargets = <<>>

\* Initialize of CustomWarmUpPeriodIndicatorAlgorithm, with both indicators
\* built for the same period.
IndicatorInit(period) ==
    /\ custom = CSMAWithoutWarmUp("custom", period)
    /\ customWarmUp = CSMAWithWarmUp("customWarmUp", period)
    /\ customIsReady = FALSE
    /\ customWarmUpIsReady = FALSE
    /\ customWindow = <<>>
    /\ customWarmUpWindow = <<>>
    /\ spyInvested = FALSE
    /\ indicatorRun = "running"
    /\ inputs = <<>>
    /\ readyAt = 0

\* Initialize of OptionPriceModelForSupportedEuropeanOptionRegressionAlgorithm;
\* the engine says whether the algorithm is warming up.
GreeksInit(warmingUp) ==
    /\ showGreeks = TRUE
    /\ triedGreeksCalculation = FALSE
    /\ isWarmingUp = warmingUp
    /\ optionChains = <<>>
    /\ greeksRun = "running"
    /\ lastHandler = "Initialize"
    /\ showGreeksBefore = TRUE
    /\ reachedGreeks = FALSE
    /\ evaluationsToday = 0
    /\ noCallsToday = FALSE

\* Initialize of BasicTemplateFuturesAlgorithm: nothing held, no OnData yet.
FuturesInit ==
    /\ portfolioInvested = FALSE
    /\ investedAtCall = FALSE
    /\ futureChains = <<>>
    /\ marketOrders = <<>>
    /\ liquidated = FALSE
    /\ futuresCalled = FALSE

\* The risk model built from any of the arguments, next to the algorithms
\* as they are after Initialize.
Init ==
    /\ \E percent \in ConfiguredPercents : RiskInit(percent)
    /\ IndicatorInit(Period)
    /\ GreeksInit(FALSE)
    /\ FuturesInit

\* One time step: the engine calls ManageRisk with the securities of the step.
Step(inv, securities) ==
    \E res \in {ManageRisk(securities, trailingHighs, maximumDrawdownPercent)} :
        /\ invested' = inv
        /\ Securities' = securities
        /\ prevHighs' = trailingHighs
        /\ trailingHighs' = res.highs
        /\ riskAdjustedTargets' = res.targets
        /\ raised' = FALSE
        /\ UNCHANGED <<configured, maximumDrawdownPercent>>

\* One time step at which the k-th security, invested, has no High: the
\* call raises there and returns nothing.
RaisingStep(inv, securities, k) ==
    /\ invested' = inv
    /\ Securities' = [securities EXCEPT ![k].High = MissingHigh]
    /\ prevHighs' = trailingHighs
    /\ trailingHighs' = ManageRiskRaisingAt(securities, k, trailingHighs, maximumDrawdownPercent)
    /\ riskAdjustedTargets' = <<>>
    /\ raised' = TRUE
    /\ UNCHANGED <<configured, maximumDrawdownPercent>>

\* The same time step of the second model.
MirrorStep(securities) ==
    \E res \in {ManageRisk(securities, mirrorHighs, mirrorPercent)} :
        /\ mirrorHighs' = res.highs
        /\ mirrorTargets' = res.targets
        /\ UNCHANGED mirrorPercent

\* ------------------------------------------------------------------------
\* The observer: what the calls have shown so far
\* ------------------------------------------------------------------------

Max(a, b) == IF a < b THEN b ELSE a

\* The smaller of two numbers.
Min(a, b) == IF a < b THEN a ELSE b

\* The observer keeps a High per symbol as a number, 0 standing for none
\* (prices are at least 1).  seen and high are SeenAs and HighOf of the
\* collection of the call.

ObserveLastReport(seen) ==
    lastReport' = [s \in Symbols |-> IF seen[s] = "absent" THEN lastReport[s] ELSE seen[s]]

\* inv is Invested of every symbol at this step, seen by the call or not.
\* A symbol becomes invested at a step where inv holds and did not hold at
\* the step before.
ObserveSinceInvested(inv, seen, high) ==
    /\ observedSince' = [s \in Symbols |->
        IF ~inv[s] THEN FALSE
        ELSE IF seen[s] # "absent" THEN TRUE
        ELSE invested[s] /\ observedSince[s]]
    /\ sinceInvestedMax' = [s \in Symbols |->
        IF ~inv[s] THEN 0
        ELSE IF invested[s] THEN Max(sinceInvestedMax[s], high[s])
        ELSE high[s]]

\* The highest High seen since a call last saw the symbol not invested.
ObserveReportedMax(seen, high) ==
    reportedMax' = [s \in Symbols |->
        IF seen[s] = "flat" THEN 0
        ELSE Max(reportedMax[s], high[s])]

\* The record a symbol lost is noted when it is seen not invested, and is
\* kept up to and including the next call that sees it invested.
ObserveEviction(seen) ==
    evictedHigh' = [s \in Symbols |->
        IF seen[s] = "flat" /\ s \in DOMAIN trailingHighs THEN trailingHighs[s]
        ELSE IF seen[s] = "invested" /\ lastReport[s] # "flat" THEN 0
        ELSE evictedHigh[s]]

\* Read before the step: the call just made saw s invested, and returned a
\* target for it or was itself in such a run.
ObservePending ==
    pendingBefore' = [s \in Symbols |->
        /\ \E i \in DOMAIN Securities : Securities[i].Key = s /\ Securities[i].Invested
        /\ (pendingBefore[s] \/ \E i \in DOMAIN riskAdjustedTargets : riskAdjustedTargets[i].Symbol = s)]

ObserveRun(seen, high) ==
    /\ geRun' = [s \in Symbols |->
        IF seen[s] = "flat" THEN TRUE
        ELSE IF seen[s] = "absent" THEN geRun[s]
        ELSE geRun[s] /\ (s \in DOMAIN trailingHighs => high[s] >= trailingHighs[s])]
    /\ gtRun' = [s \in Symbols |->
        IF seen[s] = "flat" THEN TRUE
        ELSE IF seen[s] = "absent" THEN gtRun[s]
        ELSE gtRun[s] /\ (s \in DOMAIN trailingHighs => high[s] > trailingHighs[s])]

\* The record a symbol has when it leaves the collection is noted at the
\* first call that does not see it, and is kept up to and including the next
\* call that sees it.
ObserveHeld(seen) ==
    heldWhileAbsent' = [s \in Symbols |->
        IF \A i \in DOMAIN Securities : Securities[i].Key # s
        THEN heldWhileAbsent[s]
        ELSE IF seen[s] = "absent" /\ s \in DOMAIN trailingHighs THEN trailingHighs[s]
        ELSE 0]

\* ------------------------------------------------------------------------
\* Specifications: the calls alone, and the calls with one observer each
\* ------------------------------------------------------------------------

vars == <<coreVars, feedVars, evictedHigh, pendingBefore, geRun, gtRun, heldWhileAbsent, mirrorVars, otherVars>>

ManageRiskCall ==
    \E step \in TimeSteps :
        /\ Step(step.inv, step.securities)
        /\ UNCHANGED <<feedVars, evictedHigh, pendingBefore, geRun, gtRun, mirrorVars, heldWhileAbsent, otherVars>>

Next == ManageRiskCall

Spec == Init /\ [][Next]_vars

ManageRiskCallFeed ==
    \E step \in TimeStepsInOrder :
        /\ Step(step.inv, step.securities)
        /\ ObserveLastReport(step.seen)
        /\ ObserveSinceInvested(step.inv, step.seen, step.high)
        /\ ObserveReportedMax(step.seen, step.high)
        /\ UNCHANGED <<evictedHigh, pendingBefore, geRun, gtRun, mirrorVars, heldWhileAbsent, otherVars>>

NextFeed == ManageRiskCallFeed

SpecFeed == Init /\ [][NextFeed]_vars

ManageRiskCallEviction ==
    \E step \in TimeStepsAsSeen :
        /\ Step(step.inv, step.securities)
        /\ ObserveLastReport(step.seen)
        /\ ObserveEviction(step.seen)
        /\ UNCHANGED <<observedSince, sinceInvestedMax, reportedMax, pendingBefore, geRun, gtRun, mirrorVars, heldWhileAbsent, otherVars>>

NextEviction == ManageRiskCallEviction

SpecEviction == Init /\ [][NextEviction]_vars

ManageRiskCallRun ==
    \E step \in TimeStepsAsSeen :
        /\ Step(step.inv, step.securities)
        /\ ObserveRun(step.seen, step.high)
        /\ UNCHANGED <<feedVars, evictedHigh, pendingBefore, mirrorVars, heldWhileAbsent, otherVars>>

NextRun == ManageRiskCallRun

SpecRun == Init /\ [][NextRun]_vars

ManageRiskCallRetry ==
    \E step \in TimeStepsAsSeen :
        /\ Step(step.inv, step.securities)
        /\ ObservePending
        /\ UNCHANGED <<feedVars, evictedHigh, geRun, gtRun, mirrorVars, heldWhileAbsent, otherVars>>

NextRetry == ManageRiskCallRetry

SpecRetry == Init /\ [][NextRetry]_vars

ManageRiskCallBoth ==
    \E step \in TimeStepsAsSeen :
        /\ Step(step.inv, step.securities)
        /\ MirrorStep(step.securities)
        /\ UNCHANGED <<feedVars, evictedHigh, pendingBefore, geRun, gtRun, heldWhileAbsent, otherVars>>

NextSign == ManageRiskCallBoth

SpecSign == Init /\ [][NextSign]_vars

ManageRiskCallFrame ==
    \E step \in TimeStepsAsSeen :
        /\ Step(step.inv, step.securities)
        /\ ObserveHeld(step.seen)
        /\ UNCHANGED <<feedVars, evictedHigh, pendingBefore, geRun, gtRun, mirrorVars, otherVars>>

NextFrame == ManageRiskCallFrame

SpecFrame == Init /\ [][NextFrame]_vars

ManageRiskRaises ==
    \E step \in TimeSteps :
        \E k \in DOMAIN step.securities :
            /\ step.securities[k].Invested
            /\ RaisingStep(step.inv, step.securities, k)
            /\ UNCHANGED <<feedVars, evictedHigh, pendingBefore, geRun, gtRun, mirrorVars, heldWhileAbsent, otherVars>>

NextFault == ManageRiskCall \/ ManageRiskRaises

SpecFault == Init /\ [][NextFault]_vars

\* ------------------------------------------------------------------------
\* CustomWarmUpPeriodIndicatorAlgorithm: the handlers
\* ------------------------------------------------------------------------

\* A consolidated bar of SPY: both registered indicators are updated with
\* it, self.customWarmUp first, and each Updated handler adds the new Value
\* to its window.
IndicatorsUpdate(value) ==
    /\ indicatorRun = "running"
    /\ Len(inputs) < MaxUpdates
    /\ \E w \in {CSMAWithWarmUpUpdate(customWarmUp, value)}, c \in {CSMAWithoutWarmUpUpdate(custom, value)} :
        /\ customWarmUp' = w.self
        /\ customWarmUpIsReady' = w.returns
        /\ customWarmUpWindow' = WindowAdd(customWarmUpWindow, w.self.Value)
        /\ custom' = c.self
        /\ customIsReady' = c.returns
        /\ customWindow' = WindowAdd(customWindow, c.self.Value)
        /\ readyAt' = IF readyAt = 0 /\ w.returns THEN Len(inputs) + 1 ELSE readyAt
    /\ inputs' = Append(inputs, value)
    /\ UNCHANGED <<spyInvested, indicatorRun, riskVars, greeksVars, futuresVars>>

\* OnData(data): SetHoldings when not invested (the order may fill or not),
\* then the regression test on the two Values.
IndicatorOnData ==
    /\ indicatorRun = "running"
    /\ spyInvested' \in (IF spyInvested THEN {TRUE} ELSE BOOLEAN)
    /\ indicatorRun' = IF DiffOverTolerance(custom.Value, customWarmUp.Value) THEN "quit" ELSE indicatorRun
    /\ UNCHANGED <<custom, customWarmUp, customIsReady, customWarmUpIsReady, customWindow, customWarmUpWindow, inputs, readyAt, riskVars, greeksVars, futuresVars>>

\* OnEndOfAlgorithm()
IndicatorOnEndOfAlgorithm ==
    /\ indicatorRun = "running"
    /\ indicatorRun' = IF ~customWarmUpIsReady THEN "raised" ELSE "ended"
    /\ UNCHANGED <<custom, customWarmUp, customIsReady, customWarmUpIsReady, customWindow, customWarmUpWindow, spyInvested, inputs, readyAt, riskVars, greeksVars, futuresVars>>

\* The indicators built for any period, next to the risk model built from
\* the default argument.
InitIndicator ==
    /\ RiskInit(DefaultDrawdownPercent)
    /\ \E period \in 1..MaxPeriod : IndicatorInit(period)
    /\ GreeksInit(FALSE)
    /\ FuturesInit

NextIndicator ==
    \/ \E value \in InputValues : IndicatorsUpdate(value)
    \/ IndicatorOnData
    \/ IndicatorOnEndOfAlgorithm

SpecIndicator == InitIndicator /\ [][NextIndicator]_vars

\* ------------------------------------------------------------------------
\* OptionPriceModelForSupportedEuropeanOptionRegressionAlgorithm: the handlers
\* ------------------------------------------------------------------------

\* The engine calls OnData(slice).
GreeksOnDataCall ==
    /\ greeksRun = "running"
    /\ \E chains \in OptionChains :
        \E res \in {GreeksOnData(showGreeks, triedGreeksCalculation, isWarmingUp, chains)} :
            /\ showGreeks' = res.show
            /\ triedGreeksCalculation' = res.tried
            /\ greeksRun' = IF res.raised THEN "error" ELSE "running"
            /\ optionChains' = chains
            /\ evaluationsToday' = IF res.evaluated THEN Min(evaluationsToday + 1, 2) ELSE evaluationsToday
            /\ reachedGreeks' = (reachedGreeks \/ (~isWarmingUp /\ showGreeks /\ HasCalls(chains)))
            /\ noCallsToday' = (noCallsToday \/ (~isWarmingUp /\ HasNoCalls(chains)))
    /\ lastHandler' = "OnData"
    /\ showGreeksBefore' = showGreeks
    /\ UNCHANGED <<isWarmingUp, riskVars, indicatorVars, futuresVars>>

\* The engine calls OnEndOfDay(symbol), once for every symbol.
GreeksOnEndOfDay ==
    /\ greeksRun = "running"
    /\ \E symbol \in {IndexOptionSymbol, OtherOptionSymbol} :
        /\ showGreeks' = TRUE
        /\ lastHandler' = "OnEndOfDay"
    /\ showGreeksBefore' = showGreeks
    /\ evaluationsToday' = 0
    /\ noCallsToday' = FALSE
    /\ UNCHANGED <<triedGreeksCalculation, isWarmingUp, optionChains, greeksRun, reachedGreeks, riskVars, indicatorVars, futuresVars>>

\* The warm-up ends.
GreeksEndOfWarmUp ==
    /\ greeksRun = "running"
    /\ isWarmingUp
    /\ isWarmingUp' = FALSE
    /\ lastHandler' = "EndOfWarmUp"
    /\ UNCHANGED <<showGreeks, triedGreeksCalculation, optionChains, greeksRun, showGreeksBefore, reachedGreeks, evaluationsToday, noCallsToday, riskVars, indicatorVars, futuresVars>>

\* OnEndOfAlgorithm()
GreeksOnEndOfAlgorithm ==
    /\ greeksRun = "running"
    /\ greeksRun' = IF ~triedGreeksCalculation THEN "raised" ELSE "ended"
    /\ lastHandler' = "OnEndOfAlgorithm"
    /\ showGreeksBefore' = showGreeks
    /\ UNCHANGED <<showGreeks, triedGreeksCalculation, isWarmingUp, optionChains, reachedGreeks, evaluationsToday, noCallsToday, riskVars, indicatorVars, futuresVars>>

InitGreeks ==
    /\ RiskInit(DefaultDrawdownPercent)
    /\ IndicatorInit(Period)
    /\ \E warmingUp \in BOOLEAN : GreeksInit(warmingUp)
    /\ FuturesInit

NextGreeks ==
    \/ GreeksOnDataCall
    \/ GreeksOnEndOfDay
    \/ GreeksEndOfWarmUp
    \/ GreeksOnEndOfAlgorithm

SpecGreeks == InitGreeks /\ [][NextGreeks]_vars

\* ------------------------------------------------------------------------
\* BasicTemplateFuturesAlgorithm: the handler and the fills
\* ------------------------------------------------------------------------

\* The engine calls OnData(slice).
FuturesOnDataCall ==
    \E chains \in FutureChains :
        \E res \in {FuturesOnData(portfolioInvested, chains)} :
            /\ investedAtCall' = portfolioInvested
            /\ futureChains' = chains
            /\ marketOrders' = res.orders
            /\ liquidated' = res.liquidated
            /\ futuresCalled' = TRUE
            /\ UNCHANGED <<portfolioInvested, riskVars, indicatorVars, greeksVars>>

\* An order of the last OnData fills: the portfolio is invested.
FuturesOrderFills ==
    /\ marketOrders # <<>>
    /\ ~portfolioInvested
    /\ portfolioInvested' = TRUE
    /\ UNCHANGED <<investedAtCall, futureChains, marketOrders, liquidated, futuresCalled, riskVars, indicatorVars, greeksVars>>

\* The liquidation of the last OnData fills: the portfolio is flat.
FuturesLiquidationFills ==
    /\ liquidated
    /\ portfolioInvested
    /\ portfolioInvested' = FALSE
    /\ UNCHANGED <<investedAtCall, futureChains, marketOrders, liquidated, futuresCalled, riskVars, indicatorVars, greeksVars>>

InitFutures ==
    /\ RiskInit(DefaultDrawdownPercent)
    /\ IndicatorInit(Period)
    /\ GreeksInit(FALSE)
    /\ FuturesInit

NextFutures ==
    \/ FuturesOnDataCall
    \/ FuturesOrderFills
    \/ FuturesLiquidationFills

SpecFutures == InitFutures /\ [][NextFutures]_vars

\* ------------------------------------------------------------------------
\* What the last call did, read from the state
\* ------------------------------------------------------------------------

\* The positions of the returned list that name symbol s.
Instructions(s) == {i \in DOMAIN riskAdjustedTargets : riskAdjustedTargets[i].Symbol = s}

\* The last call returned no target for s.
NoInstruction(s) == Instructions(s) = {}

\* The last call returned exactly one target for s, and it is {s, 0}.
OneLiquidation(s) == Cardinality(Instructions(s)) = 1 /\ \A i \in Instructions(s) : riskAdjustedTargets[i] = [Symbol |-> s, Quantity |-> 0]

\* The last call found a record for the security sec.
HadRecord(sec) == sec.Key \in DOMAIN prevHighs

\* The record the last call found for the security sec.
StoredHigh(sec) == prevHighs[sec.Key]

\* sec.Low is strictly under StoredHigh * (1 - f), in hundredths.
UnderThreshold(sec) == sec.Low * 100 < StoredHigh(sec) * (100 - maximumDrawdownPercent)

\* sec.Low is exactly StoredHigh * (1 - f).
AtThreshold(sec) == sec.Low * 100 = StoredHigh(sec) * (100 - maximumDrawdownPercent)

\* The securities of the last call.
Seen == {Securities[i] : i \in DOMAIN Securities}

\* ------------------------------------------------------------------------
\* Claims
\* ------------------------------------------------------------------------

\* C1 - threshold trigger: a call that finds the record H of an invested
\* security, with High <= H, returns exactly one target {symbol, 0} for it
\* when Low < H * (1 - f) and none when Low = H * (1 - f).
C1_ThresholdTrigger ==
    \A sec \in Seen :
        (sec.Invested /\ HadRecord(sec) /\ sec.High <= StoredHigh(sec)) =>
            /\ UnderThreshold(sec) => OneLiquidation(sec.Key)
            /\ AtThreshold(sec) => NoInstruction(sec.Key)

\* C1 witness: one call that liquidates a security strictly under its
\* threshold and spares another one exactly at its threshold.
C1_Witness ==
    /\ \E sec \in Seen : sec.Invested /\ HadRecord(sec) /\ sec.High <= StoredHigh(sec) /\ UnderThreshold(sec) /\ OneLiquidation(sec.Key)
    /\ \E sec \in Seen : sec.Invested /\ HadRecord(sec) /\ sec.High <= StoredHigh(sec) /\ AtThreshold(sec) /\ NoInstruction(sec.Key)

\* C2 - state invariant, as claimed: for every symbol, seen by the last call
\* or not, a record exists if and only if the symbol is invested and a call
\* has seen it since it became invested.  Refuted by the code: a symbol that
\* left the collection keeps its record after it went flat.
C2_RecordIffInvestedAndObserved ==
    \A s \in Symbols : (s \in DOMAIN trailingHighs) <=> (invested[s] /\ observedSince[s])

\* C2 as amended: for every symbol, a record exists if and only if the last
\* call that saw the symbol saw it invested.
C2_RecordIffLastSeenInvested ==
    \A s \in Symbols : (s \in DOMAIN trailingHighs) <=> (lastReport[s] = "invested")

\* C2 witness: a symbol that the last call did not see and that is not
\* invested any more still has the record of the call that saw it invested.
C2_Witness ==
    \E s \in Symbols :
        /\ \A sec \in Seen : sec.Key # s
        /\ ~invested[s]
        /\ lastReport[s] = "invested"
        /\ s \in DOMAIN trailingHighs

\* C3 - flat eviction and fresh re-establishment: a call that sees a symbol
\* with a record not invested removes the record and returns no target for
\* it; the next call that sees it invested stores exactly its High, whatever
\* the removed record was, and returns no target for it.
C3_FlatEvictionFreshHigh ==
    \A sec \in Seen :
        /\ (~sec.Invested /\ HadRecord(sec)) =>
            /\ sec.Key \notin DOMAIN trailingHighs
            /\ NoInstruction(sec.Key)
        /\ (sec.Invested /\ evictedHigh[sec.Key] # 0) =>
            /\ sec.Key \in DOMAIN trailingHighs
            /\ trailingHighs[sec.Key] = sec.High
            /\ NoInstruction(sec.Key)

\* C3 witness: the first call that sees an evicted symbol invested again
\* stores a High lower than the record it had lost.
C3_Witness ==
    \E sec \in Seen :
        /\ sec.Invested
        /\ evictedHigh[sec.Key] # 0
        /\ sec.High < evictedHigh[sec.Key]
        /\ trailingHighs[sec.Key] = sec.High

\* C4 - first observation: a call that finds no record for an invested
\* security stores its High as the record and returns no target for it,
\* whatever its Low.
C4_FirstObservation ==
    \A sec \in Seen :
        (sec.Invested /\ ~HadRecord(sec)) =>
            /\ sec.Key \in DOMAIN trailingHighs
            /\ trailingHighs[sec.Key] = sec.High
            /\ NoInstruction(sec.Key)

\* C4 witness: a record established by a bar whose Low is under the
\* threshold of the High it establishes.
C4_Witness ==
    \E sec \in Seen :
        /\ sec.Invested /\ ~HadRecord(sec)
        /\ sec.Low * 100 < sec.High * (100 - maximumDrawdownPercent)
        /\ trailingHighs[sec.Key] = sec.High
        /\ NoInstruction(sec.Key)

\* C5 - monotonic high, as claimed: while every call that sees a symbol
\* invested has High >= the record it finds, no call returns a target for
\* it.  Refuted by the code: a High equal to the record is not a new high,
\* and the Low is then compared with the threshold.
C5_MonotonicHighNoTrigger ==
    \A s \in Symbols : geRun[s] => NoInstruction(s)

\* C5 as amended: while every call that sees a symbol invested has High
\* strictly over the record it finds (or finds none), no call returns a
\* target for it, whatever the Low.
C5_RisingHighNoTrigger ==
    \A s \in Symbols : gtRun[s] => NoInstruction(s)

\* C5 witness: a run of calls with rising Highs whose last call found a
\* record, raised it, and had its Low under the threshold of both.
C5_Witness ==
    \E sec \in Seen :
        /\ sec.Invested /\ gtRun[sec.Key]
        /\ HadRecord(sec) /\ sec.High > StoredHigh(sec)
        /\ UnderThreshold(sec)
        /\ NoInstruction(sec.Key)

\* C6 - advance suppresses the check: a call whose High for an invested
\* security is strictly over the record replaces the record by that High and
\* returns no target for it; a target is returned only by a call that left
\* the record as it found it.
C6_AdvanceSuppressesCheck ==
    /\ \A sec \in Seen :
        (sec.Invested /\ HadRecord(sec) /\ sec.High > StoredHigh(sec)) =>
            /\ sec.Key \in DOMAIN trailingHighs
            /\ trailingHighs[sec.Key] = sec.High
            /\ NoInstruction(sec.Key)
    /\ \A s \in Symbols :
        ~NoInstruction(s) =>
            /\ s \in DOMAIN prevHighs
            /\ s \in DOMAIN trailingHighs
            /\ trailingHighs[s] = prevHighs[s]

\* C6 witness: the High advances while the Low is under the threshold of
\* the old record and under the threshold of the new one.
C6_Witness ==
    \E sec \in Seen :
        /\ sec.Invested /\ HadRecord(sec) /\ sec.High > StoredHigh(sec)
        /\ UnderThreshold(sec)
        /\ sec.Low * 100 < sec.High * (100 - maximumDrawdownPercent)
        /\ trailingHighs[sec.Key] = sec.High
        /\ NoInstruction(sec.Key)

\* C7 - running maximum, as claimed: the record of an invested symbol is the
\* highest High the calls have seen since the symbol became invested.
\* Refuted by the code: a symbol that went flat and became invested again
\* while the collection did not hold it keeps the record of its former
\* invested period.
C7_RecordIsMaxSinceInvested ==
    \A s \in DOMAIN trailingHighs :
        (invested[s] /\ sinceInvestedMax[s] # 0) => trailingHighs[s] = sinceInvestedMax[s]

\* C7 as amended: a symbol has a record exactly when a call has seen it
\* invested since a call last saw it not invested, the record is the highest
\* High of those calls, and no call that finds and leaves a record lowers it.
C7_RecordIsMaxSinceSeenFlat ==
    /\ \A s \in Symbols : (s \in DOMAIN trailingHighs) <=> (reportedMax[s] # 0)
    /\ \A s \in DOMAIN trailingHighs : trailingHighs[s] = reportedMax[s]
    /\ \A s \in (DOMAIN trailingHighs) \cap (DOMAIN prevHighs) : trailingHighs[s] >= prevHighs[s]

\* C7 witness: a call with a High under the record leaves the record at the
\* maximum, and the record had been raised before (it is over the lowest
\* price).
C7_Witness ==
    \E sec \in Seen :
        /\ sec.Invested /\ HadRecord(sec)
        /\ sec.High < StoredHigh(sec)
        /\ trailingHighs[sec.Key] = reportedMax[sec.Key]
        /\ trailingHighs[sec.Key] = StoredHigh(sec)

\* C8 - emission does not touch the state: a call that makes the drawdown
\* check for a security (a record exists and High does not exceed it) leaves
\* its record as it was, with or without a target returned; a record is
\* removed only by a call that sees the security not invested.
C8_EmissionKeepsRecord ==
    /\ \A sec \in Seen :
        (sec.Invested /\ HadRecord(sec) /\ sec.High <= StoredHigh(sec)) =>
            /\ sec.Key \in DOMAIN trailingHighs
            /\ trailingHighs[sec.Key] = StoredHigh(sec)
    /\ \A s \in (DOMAIN prevHighs) \ (DOMAIN trailingHighs) :
        \E sec \in Seen : sec.Key = s /\ ~sec.Invested

\* C8 witness: a target was returned for a security and its record is the
\* one the call found.
C8_Witness ==
    \E sec \in Seen :
        /\ sec.Invested /\ HadRecord(sec) /\ sec.High <= StoredHigh(sec)
        /\ OneLiquidation(sec.Key)
        /\ trailingHighs[sec.Key] = StoredHigh(sec)

\* C9 - repeated instruction: once a call has returned a target for a symbol
\* and every call since has seen it invested, the record is still there and
\* every call with High <= record and Low under the threshold returns the
\* target again; a call of such a run returns no target only when the High
\* advanced or the Low is not under the threshold.
C9_RepeatedInstruction ==
    \A sec \in Seen :
        (sec.Invested /\ pendingBefore[sec.Key]) =>
            /\ HadRecord(sec)
            /\ (sec.High <= StoredHigh(sec) /\ UnderThreshold(sec)) => OneLiquidation(sec.Key)
            /\ NoInstruction(sec.Key) => (sec.High > StoredHigh(sec) \/ ~UnderThreshold(sec))

\* C9 witness: a target is returned for a symbol for which an earlier call
\* had returned one already.
C9_Witness ==
    \E sec \in Seen :
        /\ sec.Invested /\ pendingBefore[sec.Key]
        /\ sec.High <= StoredHigh(sec) /\ UnderThreshold(sec)
        /\ OneLiquidation(sec.Key)

\* C10 - the sign of the configuration is irrelevant: the model built from
\* the argument and the model built from its opposite, run on the same
\* collections, hold the same dictionary and return the same list after
\* every call.
C10_SignIrrelevant ==
    /\ mirrorHighs = trailingHighs
    /\ mirrorTargets = riskAdjustedTargets

\* C10 witness: both models returned the same target in a call that also
\* made the drawdown check for a security on which the argument and its
\* opposite, taken with their signs, would decide differently.
C10_Witness ==
    /\ configured # 0
    /\ mirrorTargets = riskAdjustedTargets
    /\ riskAdjustedTargets # <<>>
    /\ \E sec \in Seen :
        /\ sec.Invested /\ HadRecord(sec) /\ sec.High <= StoredHigh(sec)
        /\ ~(sec.Low * 100 < StoredHigh(sec) * (100 - configured) <=> sec.Low * 100 < StoredHigh(sec) * (100 + configured))

\* The symbols of the securities of the last call.
SeenKeys == {Securities[i].Key : i \in DOMAIN Securities}

\* The dictionary highs cut down to the symbols of S.
Restrict(highs, S) == [s \in (DOMAIN highs) \cap S |-> highs[s]]

\* The targets of a list, without their order.
TargetSet(targets) == {targets[i] : i \in DOMAIN targets}

\* C11 - no partial commit, as claimed: a call that raises at some security
\* leaves the dictionary as it found it.  Refuted by the code: the loop
\* writes to self.trailingHighs itself, so what it did for the securities
\* before the one that raised stays.
C11_NoPartialCommit ==
    raised => trailingHighs = prevHighs

\* C12 - independence under reordering and sharding: the securities of the
\* last call, iterated in any order from the dictionary the call found, give
\* the dictionary and the set of targets the call gave; so do two shards
\* that split the symbols and the dictionary between them; and the record
\* and the target of a security are those of a call that is given this
\* security and its own record alone.
C12_OrderAndShardIndependence ==
    /\ \A q \in Orderings(DOMAIN Securities) :
        LET res == ManageRisk([i \in DOMAIN Securities |-> Securities[q[i]]], prevHighs, maximumDrawdownPercent)
        IN  /\ res.highs = trailingHighs
            /\ TargetSet(res.targets) = TargetSet(riskAdjustedTargets)
            /\ Len(res.targets) = Len(riskAdjustedTargets)
    /\ \A A \in SUBSET Symbols :
        LET B      == Symbols \ A
            shardA == ManageRisk(SelectSeq(Securities, LAMBDA e : e.Key \in A), Restrict(prevHighs, A), maximumDrawdownPercent)
            shardB == ManageRisk(SelectSeq(Securities, LAMBDA e : e.Key \in B), Restrict(prevHighs, B), maximumDrawdownPercent)
        IN  /\ DOMAIN trailingHighs = (DOMAIN shardA.highs) \cup (DOMAIN shardB.highs)
            /\ \A s \in DOMAIN shardA.highs : trailingHighs[s] = shardA.highs[s]
            /\ \A s \in DOMAIN shardB.highs : trailingHighs[s] = shardB.highs[s]
            /\ TargetSet(riskAdjustedTargets) = TargetSet(shardA.targets) \cup TargetSet(shardB.targets)
    /\ \A sec \in Seen :
        LET own == ManageRisk(<<sec>>, Restrict(prevHighs, {sec.Key}), maximumDrawdownPercent)
        IN  /\ Restrict(trailingHighs, {sec.Key}) = own.highs
            /\ {riskAdjustedTargets[i] : i \in Instructions(sec.Key)} = TargetSet(own.targets)

\* C12 witness: a call over two securities that removed the record of the
\* first, which is not invested, and returned a target for the second.
C12_Witness ==
    /\ Len(Securities) = 2
    /\ ~Securities[1].Invested /\ HadRecord(Securities[1])
    /\ Securities[1].Key \notin DOMAIN trailingHighs
    /\ OneLiquidation(Securities[2].Key)

\* C15 - output confined to invested, checked securities: every target of
\* the returned list has quantity 0 and names a security of the call that is
\* invested and had a record before the call; a security that is not
\* invested gets no target; no symbol is named twice.
C15_OutputConfined ==
    /\ \A i \in DOMAIN riskAdjustedTargets :
        /\ riskAdjustedTargets[i].Quantity = 0
        /\ \E sec \in Seen :
            /\ sec.Key = riskAdjustedTargets[i].Symbol
            /\ sec.Invested
            /\ HadRecord(sec)
    /\ \A sec \in Seen : ~sec.Invested => NoInstruction(sec.Key)
    /\ \A s \in Symbols : Cardinality(Instructions(s)) <= 1

\* C15 witness: a call that returned one target, for a security with a
\* record, and none for the two cases that get none: a security that is not
\* invested though its Low is under the threshold of the record it had.
C15_Witness ==
    /\ Len(riskAdjustedTargets) = 1
    /\ \E sec \in Seen : sec.Invested /\ HadRecord(sec) /\ OneLiquidation(sec.Key)
    /\ \E sec \in Seen : ~sec.Invested /\ HadRecord(sec) /\ UnderThreshold(sec) /\ NoInstruction(sec.Key)

\* C16 - frame on absent symbols: a call leaves the record of a symbol its
\* collection does not hold as it found it, there or not there; while the
\* symbol stays away the record is the one it had when it left; and the
\* first call that sees it invested again finds that record and compares
\* with it: a High over it replaces it, else the Low is held against its
\* threshold.
C16_AbsentFrame ==
    /\ \A s \in Symbols \ SeenKeys :
        /\ Restrict(trailingHighs, {s}) = Restrict(prevHighs, {s})
        /\ (s \in DOMAIN trailingHighs) <=> (heldWhileAbsent[s] # MissingHigh)
        /\ s \in DOMAIN trailingHighs => trailingHighs[s] = heldWhileAbsent[s]
    /\ \A sec \in Seen :
        (sec.Invested /\ heldWhileAbsent[sec.Key] # MissingHigh) =>
            /\ HadRecord(sec)
            /\ StoredHigh(sec) = heldWhileAbsent[sec.Key]
            /\ sec.High > heldWhileAbsent[sec.Key] =>
                (trailingHighs[sec.Key] = sec.High /\ NoInstruction(sec.Key))
            /\ sec.High <= heldWhileAbsent[sec.Key] =>
                /\ trailingHighs[sec.Key] = heldWhileAbsent[sec.Key]
                /\ OneLiquidation(sec.Key) <=> sec.Low * 100 < heldWhileAbsent[sec.Key] * (100 - maximumDrawdownPercent)
                /\ NoInstruction(sec.Key) <=> ~(sec.Low * 100 < heldWhileAbsent[sec.Key] * (100 - maximumDrawdownPercent))

\* C16 witness: a symbol that left the collection with a record comes back
\* invested with a lower High, and is liquidated against the record it left
\* with.
C16_Witness ==
    \E sec \in Seen :
        /\ sec.Invested
        /\ heldWhileAbsent[sec.Key] # MissingHigh
        /\ sec.High < heldWhileAbsent[sec.Key]
        /\ trailingHighs[sec.Key] = heldWhileAbsent[sec.Key]
        /\ OneLiquidation(sec.Key)

\* The sum of the last count inputs the indicators were updated with.
SumOfLast(count) == Sum(SubSeq(inputs, Len(inputs) - count + 1, Len(inputs)))

\* C13 - indicator backwards compatibility: after any number of updates of
\* both indicators with the same inputs, the Value of the one without
\* WarmUpPeriod equals the Value of the one with it, both Updates returned
\* the same readiness, and OnData has not called Quit.
C13_IndicatorsAgree ==
    /\ custom.Value.num * customWarmUp.Value.den = customWarmUp.Value.num * custom.Value.den
    /\ customIsReady = customWarmUpIsReady
    /\ indicatorRun # "quit"

\* C13 witness: OnData has run (the holdings are set) with the indicators
\* not ready yet and holding a Value that is not a whole number.
C13_Witness ==
    /\ spyInvested
    /\ indicatorRun = "running"
    /\ Len(inputs) >= 2
    /\ ~customWarmUpIsReady /\ ~customIsReady
    /\ \A k \in InputValues : custom.Value.num # k * custom.Value.den

\* C18 - readiness is monotone and the window is bounded: the queue of an
\* indicator of period p never holds more than p values; its n-th Update
\* returns True exactly when n >= p, so once it has returned True it does so
\* ever after; and Value after the n-th Update is the mean of the last
\* min(n, p) inputs.  OnEndOfAlgorithm raises exactly when the indicator
\* with WarmUpPeriod is not ready.
C18_ReadinessAndWindow ==
    /\ Len(customWarmUp.queue) <= customWarmUp.maxlen
    /\ Len(custom.queue) <= custom.maxlen
    /\ Len(inputs) >= 1 =>
        /\ customWarmUpIsReady <=> Len(inputs) >= customWarmUp.maxlen
        /\ customIsReady <=> Len(inputs) >= custom.maxlen
        /\ customWarmUp.Value.den = Min(Len(inputs), customWarmUp.maxlen)
        /\ customWarmUp.Value.num = SumOfLast(Min(Len(inputs), customWarmUp.maxlen))
        /\ custom.Value.den = Min(Len(inputs), custom.maxlen)
        /\ custom.Value.num = SumOfLast(Min(Len(inputs), custom.maxlen))
    /\ readyAt # 0 => (customWarmUpIsReady /\ readyAt = customWarmUp.maxlen)
    /\ indicatorRun = "raised" => Len(inputs) < customWarmUp.maxlen
    /\ indicatorRun = "ended" => Len(inputs) >= customWarmUp.maxlen

\* C18 witness: more updates than the period, the last inputs differing from
\* the ones the queue has dropped, and the run ended without raising.
C18_Witness ==
    /\ indicatorRun = "ended"
    /\ Len(inputs) > customWarmUp.maxlen + 1
    /\ customWarmUp.maxlen > 1
    /\ customWarmUpIsReady
    /\ Len(customWarmUp.queue) = customWarmUp.maxlen
    /\ customWarmUp.Value.num # Sum(inputs)
    /\ customWarmUp.Value.num # SumOfLast(customWarmUp.maxlen + 1)

\* C14 - Greeks regression outcome: _triedGreeksCalculation is set exactly
\* when some OnData outside warm-up carried a chain of the index option with
\* a call in it while _showGreeks was true, and stays set; OnEndOfAlgorithm
\* raises exactly when there was no such OnData.
C14_GreeksOutcome ==
    /\ triedGreeksCalculation <=> reachedGreeks
    /\ greeksRun = "raised" => ~reachedGreeks
    /\ greeksRun = "ended" => reachedGreeks

\* C14 witness: OnEndOfAlgorithm raised after an OnData outside warm-up that
\* carried the chain of the index option, with puts only.
C14_Witness ==
    /\ greeksRun = "raised"
    /\ noCallsToday
    /\ HasNoCalls(optionChains)
    /\ \E i \in DOMAIN optionChains : optionChains[i].Key = IndexOptionSymbol /\ optionChains[i].Value # <<>>

\* C19 - Greeks at most once a day: at most one OnData evaluates Greeks
\* between two OnEndOfDay (and before the first), namely exactly when
\* _showGreeks is found cleared; an OnData that finds the index option
\* chain without calls leaves _showGreeks as it found it; an OnData outside
\* warm-up that finds _showGreeks set and calls in the chain makes the
\* calculation; OnEndOfDay sets _showGreeks again.
C19_OncePerDay ==
    /\ evaluationsToday <= 1
    /\ evaluationsToday = 1 <=> ~showGreeks
    /\ (lastHandler = "OnData" /\ HasNoCalls(optionChains)) => showGreeks = showGreeksBefore
    /\ (lastHandler = "OnData" /\ ~isWarmingUp /\ showGreeksBefore /\ HasCalls(optionChains)) =>
        (~showGreeks /\ triedGreeksCalculation /\ evaluationsToday = 1)
    /\ lastHandler = "OnEndOfDay" => (showGreeks /\ evaluationsToday = 0)

\* C19 witness: the Greeks were calculated by an OnData that came, on the
\* same day, after an OnData that found no calls.
C19_Witness ==
    /\ lastHandler = "OnData"
    /\ noCallsToday
    /\ showGreeksBefore /\ ~showGreeks
    /\ HasCalls(optionChains)
    /\ evaluationsToday = 1
    /\ greeksRun = "running"

\* The contracts of a chain that expire later than 90 days from the call.
LaterThanHorizon(chain) == {chain.Value[j] : j \in {k \in DOMAIN chain.Value : chain.Value[k].Expiry > HorizonDays}}

\* The orders of the last OnData for contracts of a chain.
OrdersFor(chain) == {i \in DOMAIN marketOrders : \E j \in DOMAIN chain.Value : marketOrders[i].Symbol = chain.Value[j].Symbol}

\* C17 - front contract selection, as claimed: an OnData that finds the
\* portfolio not invested places, for every chain with a contract expiring
\* later than 90 days, one order of quantity 1 for the contract of earliest
\* expiry among those, and none for a chain without such a contract; an
\* OnData that finds the portfolio invested only liquidates.  Refuted by
\* the code: the contracts are sorted with reverse=True, so the order goes
\* to the contract of latest expiry.
C17_FrontContractSelection ==
    futuresCalled =>
        /\ ~investedAtCall =>
            /\ ~liquidated
            /\ \A c \in DOMAIN futureChains :
                LET chain == futureChains[c]
                IN  /\ LaterThanHorizon(chain) = {} => OrdersFor(chain) = {}
                    /\ LaterThanHorizon(chain) # {} =>
                        /\ Cardinality(OrdersFor(chain)) = 1
                        /\ \A i \in OrdersFor(chain) :
                            /\ marketOrders[i].Quantity = 1
                            /\ \E x \in LaterThanHorizon(chain) :
                                /\ marketOrders[i].Symbol = x.Symbol
                                /\ \A y \in LaterThanHorizon(chain) : x.Expiry <= y.Expiry
        /\ investedAtCall => (liquidated /\ marketOrders = <<>>)


==========================================================================
